---- MODULE Spec2Model ----
(***************************************************************************)
(* Model of the quest ledger of myapps/game_companion/code/resources.py:   *)
(* class Quest (reply, is_accomplished, _validate, _current_status_str),   *)
(* QuestMeta and material_item_factory; of the retry loop of               *)
(* PostAPIModelWrapperBase.__call__ (post_model.py); of                    *)
(* XverseChatWrapper.format (xverse_model.py); of the night of the         *)
(* werewolf game (werewolf.py) and of the loop of the quest game           *)
(* (game.py).  Each part has its own                                       *)
(* variables and its own specification; the variables of the other parts   *)
(* keep their idle values.                                                 *)
(*                                                                         *)
(* Python values are represented as follows.                               *)
(*   - a dict is a sequence of [k, v] style records in insertion order     *)
(*     with pairwise distinct keys;                                        *)
(*   - a MaterialItem is its type_id (equality and hash of MaterialItem    *)
(*     use type_id only);                                                  *)
(*   - a quantity is a fixed point number counted in 1/PerUnit, so that    *)
(*     the float quantities 0.5 and 2.5 are the numbers 1 and 5; a         *)
(*     quantity carries the Python type of its value (int or float);       *)
(*   - an exception leaving reply is the name of its class in the field    *)
(*     raised of the outcome, "" when reply returned.                      *)
(***************************************************************************)
EXTENDS Integers, Sequences, FiniteSets, TLC

VARIABLES
    quest_meta,      \* Quest.quest_meta: agent_id, texts, materials_requirement
    current_status,  \* Quest.current_status: dict material -> amount
    x,               \* the argument of the last call of Quest.reply
    outcome,         \* how the last call ended: raised, content (the Msg content)
    old_status,      \* current_status when the last call of reply was entered
    op,              \* the method of Quest that was called last
    observed         \* what the last call returned when it was not reply, else ""

questVars == <<quest_meta, current_status, x, outcome, old_status, op, observed>>

VARIABLES
    max_retries,     \* PostAPIModelWrapperBase.max_retries
    retry_interval,  \* PostAPIModelWrapperBase.retry_interval
    post_pc,         \* where __call__ stands: "idle", "post", "sleep", "record", "done"
    post_i,          \* the loop variable i of __call__
    response,        \* the local response of __call__: bound, status_code, body
    events,          \* the requests.post and time.sleep calls of __call__, in order
    post_result      \* how __call__ ended: raised and the returned ModelResponse

postVars == <<max_retries, retry_interval, post_pc, post_i, response, events, post_result>>

VARIABLES
    args,            \* the arguments of the call of XverseChatWrapper.format
    formatted        \* how format ended: called, raised and the returned messages

formatVars == <<args, formatted>>

VARIABLES
    survivors,             \* werewolf.main: the names of the players alive
    wolves,                \* the names of the werewolves alive
    healing,               \* the witch still has her healing
    poison,                \* the witch still has her poison
    wolf_pc,               \* where main stands in the night
    votes,                 \* the local votes
    dead_player,           \* the local dead_player
    healing_used_tonight,  \* the local healing_used_tonight
    hints,                 \* the prompts the moderator has sent, in order
    wolf_raised,           \* the exception that ended main, "" when none
    night,                 \* the number of the round of the loop of line 45
    answers                \* the replies of the witch and the seer, in order

wolfVars == <<survivors, wolves, healing, poison, wolf_pc, votes, dead_player,
              healing_used_tonight, hints, wolf_raised, night, answers>>

VARIABLES
    quests,              \* game.main: the quest of each npc
    guide_msgs,          \* the content of the next prompt of each npc
    accomplished_quest,  \* the indices of the quests of the set accomplished_quest
    cur_round,           \* the local cur_round
    game_pc,             \* where main stands in its loops
    npc_i,               \* the loop variable i, counted from 1
    turn,                \* what the last turn of an npc did
    game_raised          \* the exception that ended main, "" when none

gameVars == <<quests, guide_msgs, accomplished_quest, cur_round, game_pc, npc_i,
              turn, game_raised>>

vars == <<questVars, postVars, formatVars, wolfVars, gameVars>>

\* the values of the variables of a part that is not running
PostIdle ==
    /\ max_retries = 0
    /\ retry_interval = 0
    /\ post_pc = "off"
    /\ post_i = 0
    /\ response = [bound |-> FALSE, status_code |-> 0, body |-> 0]
    /\ events = <<>>
    /\ post_result = [raised |-> "", returned |-> <<>>]

FormatIdle ==
    /\ args = <<>>
    /\ formatted = [called |-> FALSE, raised |-> "", messages |-> <<>>]

WolfIdle ==
    /\ survivors = <<>>
    /\ wolves = <<>>
    /\ healing = FALSE
    /\ poison = FALSE
    /\ wolf_pc = "off"
    /\ votes = <<>>
    /\ dead_player = <<>>
    /\ healing_used_tonight = FALSE
    /\ hints = <<>>
    /\ wolf_raised = ""
    /\ night = 0
    /\ answers = <<>>

GameIdle ==
    /\ quests = <<>>
    /\ guide_msgs = <<>>
    /\ accomplished_quest = {}
    /\ cur_round = 0
    /\ game_pc = "off"
    /\ npc_i = 0
    /\ turn = <<>>
    /\ game_raised = ""

QuestIdle ==
    /\ quest_meta = <<>>
    /\ current_status = <<>>
    /\ x = <<>>
    /\ outcome = <<>>
    /\ old_status = <<>>
    /\ op = "off"
    /\ observed = ""

(***************************************************************************)
(* Bounds of the model.                                                    *)
(***************************************************************************)
MaxTotal == 24       \* cap of a cumulative quantity, in 1/PerUnit
MaxMaxRetries == 3   \* the largest max_retries of a model wrapper
MaxArgs == 2         \* arguments of one call of format, and items of a list

(***************************************************************************)
(* Quantities.                                                             *)
(***************************************************************************)
PerUnit == 2

Qty(n) == n * PerUnit

\* math.floor(number)
Floor(number) == number \div PerUnit

\* the Python number a quantity record stands for is amount / PerUnit
IntAmount(n) == [kind |-> "int", amount |-> Qty(n)]
FloatAmount(a) == [kind |-> "float", amount |-> a]
StrAmount == [kind |-> "str", amount |-> 0]

IsNumber(v) == v.kind \in {"int", "float"}

\* int + int is an int, every other sum of numbers is a float
Add(v, w) ==
    [kind |-> IF v.kind = "int" /\ w.kind = "int" THEN "int" ELSE "float",
     amount |-> v.amount + w.amount]

(***************************************************************************)
(* Python dicts.                                                           *)
(***************************************************************************)
DictHas(d, key) == \E i \in 1..Len(d) : d[i].k = key

DictGet(d, key, default) ==
    IF DictHas(d, key)
    THEN d[CHOOSE i \in 1..Len(d) : d[i].k = key].v
    ELSE default

DictPut(d, key, value) ==
    IF DictHas(d, key)
    THEN [i \in 1..Len(d) |-> IF d[i].k = key THEN [k |-> key, v |-> value] ELSE d[i]]
    ELSE Append(d, [k |-> key, v |-> value])

(***************************************************************************)
(* Materials.                                                              *)
(***************************************************************************)
\* the keys of material_dict in material_item_factory
material_dict == {"lumber"}

\* material_item_factory: the list of created items, or the exception of
\* the lookup material_dict[item_type_id], which is evaluated once per
\* item and so not at all when math.floor(number) < 1
material_item_factory(item_type_id, number) ==
    IF Floor(number) < 1
    THEN [raised |-> "", materials |-> <<>>]
    ELSE IF item_type_id \notin material_dict
         THEN [raised |-> "KeyError", materials |-> <<>>]
         ELSE [raised |-> "", materials |-> [i \in 1..Floor(number) |-> item_type_id]]

(***************************************************************************)
(* QuestMeta.                                                              *)
(***************************************************************************)
\* a str.format template with the one field {current_status}: the text
\* before the field and the text after it
Template(before, after) == [before |-> before, after |-> after]

\* str.format_map({"current_status": value})
format_map(template, value) == template.before \o value \o template.after

\* the defaults of QuestMeta.__init__
DefaultHint == "You need to do something."
DefaultUnfinishedMsg ==
    Template("The quest is not finished yet. Current status: ", "")
DefaultFinishedMsg == "You have finished the quest!"

\* QuestMeta.prompt: the loop that builds requirement_msgs, joined by ","
RECURSIVE RequirementMsgs(_, _)
RequirementMsgs(requirement, i) ==
    IF i > Len(requirement)
    THEN ""
    ELSE (IF i > 1 THEN "," ELSE "")
             \o requirement[i].k \o ": " \o ToString(requirement[i].v.amount \div PerUnit)
             \o RequirementMsgs(requirement, i + 1)

\* QuestMeta.prompt
prompt(meta) ==
    meta.name \o ": " \o meta.description \o ". requirement: {"
        \o RequirementMsgs(meta.materials_requirement, 1) \o "}"

DefaultName == "basic_quest"
DefaultDescription == "It's a quest base"

QuestMeta(agent_id, materials_requirement) ==
    [name |-> DefaultName,
     agent_id |-> agent_id,
     description |-> DefaultDescription,
     hint |-> DefaultHint,
     unfinished_msg |-> DefaultUnfinishedMsg,
     finished_msg |-> DefaultFinishedMsg,
     materials_requirement |-> materials_requirement]

(***************************************************************************)
(* Quest.                                                                  *)
(***************************************************************************)
None == "<None>"
Absent == "<absent>"

\* str.lower() on the agent names of the model
Lower(name) == IF name = "NPC1" THEN "npc1" ELSE name

\* _validate comparing the agent names without regard to case
_validate_ignoring_case(meta, xx) ==
    IF ~xx.is_dict
    THEN "x must be a dict"
    ELSE IF xx.agent_id = Absent \/ Lower(xx.agent_id) # Lower(meta.agent_id)
    THEN "agent_id not existed or invalid"
    ELSE IF xx.material_submission.shape # "dict"
    THEN "material_submission not existed"
    ELSE None

\* _validate without the isinstance check of material_submission
_validate_any_shape(meta, xx) ==
    IF ~xx.is_dict
    THEN "x must be a dict"
    ELSE IF xx.agent_id = Absent \/ xx.agent_id # meta.agent_id
    THEN "agent_id not existed or invalid"
    ELSE IF xx.material_submission.shape = "absent"
    THEN "material_submission not existed"
    ELSE None

\* _validate checking material_submission before agent_id
_validate_submission_first(meta, xx) ==
    IF ~xx.is_dict
    THEN "x must be a dict"
    ELSE IF xx.material_submission.shape # "dict"
    THEN "material_submission not existed"
    ELSE IF xx.agent_id = Absent \/ xx.agent_id # meta.agent_id
    THEN "agent_id not existed or invalid"
    ELSE None

\* Quest._validate: the Error of the first failing check, or None
_validate(meta, xx) ==
    IF ~xx.is_dict
    THEN "x must be a dict"
    ELSE IF xx.agent_id = Absent \/ xx.agent_id # meta.agent_id
    THEN "agent_id not existed or invalid"
    ELSE IF xx.material_submission.shape # "dict"
    THEN "material_submission not existed"
    ELSE None

\* line 215 with <= in the place of <
RequirementUnmet_le(status, material, amount) ==
    \/ ~DictHas(status, material)
    \/ DictGet(status, material, IntAmount(0)).amount <= amount.amount

\* line 215 without the comparison of the amounts
RequirementUnmet_presence(status, material, amount) ==
    ~DictHas(status, material)

\* the condition of line 215 of is_accomplished
RequirementUnmet(status, material, amount) ==
    \/ ~DictHas(status, material)
    \/ DictGet(status, material, IntAmount(0)).amount < amount.amount

\* Quest.is_accomplished: the loop over materials_requirement.items()
RECURSIVE is_accomplished_from(_, _, _)
is_accomplished_from(requirement, status, i) ==
    IF i > Len(requirement)
    THEN TRUE
    ELSE IF RequirementUnmet(status, requirement[i].k, requirement[i].v)
         THEN FALSE
         ELSE is_accomplished_from(requirement, status, i + 1)

is_accomplished(meta, status) ==
    is_accomplished_from(meta.materials_requirement, status, 1)

\* json.dumps of an int or a float
DumpNumber(v) ==
    IF v.kind = "int"
    THEN ToString(Floor(v.amount))
    ELSE ToString(Floor(v.amount))
             \o (IF v.amount % PerUnit = 0 THEN ".0" ELSE ".5")

RECURSIVE DumpItems(_, _)
DumpItems(d, i) ==
    IF i > Len(d)
    THEN ""
    ELSE (IF i > 1 THEN ", " ELSE "")
             \o "\"" \o d[i].k \o "\": " \o DumpNumber(d[i].v)
             \o DumpItems(d, i + 1)

\* Quest._current_status_str: json.dumps({str(material): amount})
_current_status_str(status) == "{" \o DumpItems(status, 1) \o "}"

\* line 191 with < in the place of <=
SkipEntry_negative(amount) == amount.amount < 0

\* line 191: the entries that reply skips
SkipEntry(amount) == amount.amount <= 0

\* line 195 storing the amount in the place of adding it
Credit_overwrite(status, material, amount) ==
    DictPut(status, material, amount)

\* line 195: the new current_status of a credited entry
Credit(status, material, amount) ==
    DictPut(status, material, Add(DictGet(status, material, IntAmount(0)), amount))

\* line 194 crediting every material that the factory made
IsRequired_always(meta, material) == TRUE

\* line 194: materials[0] in self.quest_meta.materials_requirement
IsRequired(meta, material) == DictHas(meta.materials_requirement, material)

\* lines 190-195 of Quest.reply: the loop over material_submission.items(),
\* from entry i on; it ends with the current_status it has built and the
\* exception that stopped it, if any
RECURSIVE ReplyLoop(_, _, _, _)
ReplyLoop(meta, status, items, i) ==
    IF i > Len(items)
    THEN [raised |-> "", current_status |-> status]
    ELSE LET material_type_id == items[i].k
             amount == items[i].v
         IN  IF ~IsNumber(amount)
             THEN \* amount <= 0 compares a str with an int
                  [raised |-> "TypeError", current_status |-> status]
             ELSE IF SkipEntry(amount)
             THEN ReplyLoop(meta, status, items, i + 1)
             ELSE LET made == material_item_factory(material_type_id, amount.amount)
                  IN  IF made.raised # ""
                      THEN [raised |-> made.raised, current_status |-> status]
                      ELSE IF made.materials = <<>>
                      THEN \* materials[0] of an empty list
                           [raised |-> "IndexError", current_status |-> status]
                      ELSE IF IsRequired(meta, made.materials[1])
                      THEN ReplyLoop(meta,
                                     Credit(status, made.materials[1], amount),
                                     items, i + 1)
                      ELSE ReplyLoop(meta, status, items, i + 1)

\* lines 171-182: the content returned for a submission that is not valid
InvalidContent(err) ==
    [valid |-> FALSE,
     finished |-> FALSE,
     message |-> "Invalid submission: " \o err]

\* lines 197-208: the content returned after the loop
ValidContent(meta, status) ==
    IF is_accomplished(meta, status)
    THEN [valid |-> TRUE,
          finished |-> TRUE,
          message |-> meta.finished_msg]
    ELSE [valid |-> TRUE,
          finished |-> FALSE,
          message |-> format_map(meta.unfinished_msg, _current_status_str(status)),
          hint |-> meta.hint]

NoContent == <<>>

\* Quest.reply: the exception it raises ("" when it returns), the content
\* of the returned Msg and the current_status it leaves
reply(meta, status, xx) ==
    LET err == _validate(meta, xx)
    IN  IF err # None
        THEN [raised |-> "", content |-> InvalidContent(err), current_status |-> status]
        ELSE IF xx.agent_id = Absent \/ xx.material_submission.shape = "absent"
        THEN \* x['agent_id'] or x['material_submission'] of a missing key
             [raised |-> "KeyError", content |-> NoContent, current_status |-> status]
        ELSE IF xx.material_submission.shape # "dict"
        THEN \* .items() of a value that is not a dict
             [raised |-> "AttributeError", content |-> NoContent, current_status |-> status]
        ELSE LET loop == ReplyLoop(meta, status, xx.material_submission.items, 1)
             IN  IF loop.raised # ""
                 THEN [raised |-> loop.raised,
                       content |-> NoContent,
                       current_status |-> loop.current_status]
                 ELSE [raised |-> "",
                       content |-> ValidContent(meta, loop.current_status),
                       current_status |-> loop.current_status]

(***************************************************************************)
(* The inputs of the model.                                                *)
(***************************************************************************)
\* the name of the agent that owns the quest
OwnerIds == {"npc1"}

\* the values of x["agent_id"]; Absent is a dict without that key
SubmittedAgentIds == {"npc1", "NPC1", Absent}

\* the keys of a material_submission; "stone" is no key of material_dict
SubmittedTypeIds == {"lumber", "stone"}

\* the values of a material_submission: -1, 0, 5, 0.5, 2.5 and a str
SubmittedAmounts ==
    {IntAmount(-1), IntAmount(0), IntAmount(5),
     FloatAmount(1), FloatAmount(5), StrAmount}

\* the dicts with keys in SubmittedTypeIds and values in SubmittedAmounts
RECURSIVE DictsOver(_, _)
DictsOver(keys, values) ==
    {<<>>} \cup
    UNION {{<<[k |-> key, v |-> value]>> \o rest :
                value \in values, rest \in DictsOver(keys \ {key}, values)} :
           key \in keys}

MaterialSubmissions ==
    {[shape |-> "absent", items |-> <<>>], [shape |-> "other", items |-> <<>>]}
        \cup {[shape |-> "dict", items |-> d] :
                   d \in DictsOver(SubmittedTypeIds, SubmittedAmounts)}

NotADict ==
    [is_dict |-> FALSE,
     agent_id |-> Absent,
     material_submission |-> [shape |-> "absent", items |-> <<>>]]

Inputs ==
    {NotADict} \cup
    [is_dict : {TRUE},
     agent_id : SubmittedAgentIds,
     material_submission : MaterialSubmissions]

\* the values of materials_requirement: the empty requirement of the
\* default QuestMeta, and lumber alone (10 as in game.py, and 4); a quest
\* requires only materials that material_item_factory makes
Requirements ==
    {<<>>,
     <<[k |-> "lumber", v |-> IntAmount(4)]>>,
     <<[k |-> "lumber", v |-> IntAmount(10)]>>}

(***************************************************************************)
(* The state machine.                                                      *)
(***************************************************************************)
\* Quest.__init__: the ledger starts empty
Init ==
    /\ quest_meta \in {QuestMeta(a, r) : a \in OwnerIds, r \in Requirements}
    /\ current_status = <<>>
    /\ x = NotADict
    /\ outcome = [called |-> FALSE, raised |-> "", content |-> NoContent]
    /\ old_status = <<>>
    /\ op = "__init__"
    /\ observed = ""
    /\ PostIdle
    /\ FormatIdle
    /\ WolfIdle
    /\ GameIdle

\* one call of Quest.reply
Reply ==
    \E xx \in Inputs :
        \E r \in {reply(quest_meta, current_status, xx)} :
            /\ \A i \in 1..Len(r.current_status) :
                   r.current_status[i].v.amount <= MaxTotal
            /\ x' = xx
            /\ old_status' = current_status
            /\ current_status' = r.current_status
            /\ outcome' = [called |-> TRUE, raised |-> r.raised, content |-> r.content]
            /\ op' = "reply"
            /\ observed' = ""
            /\ UNCHANGED <<quest_meta, postVars, formatVars, wolfVars, gameVars>>

Next == Reply

Spec == Init /\ [][Next]_vars

\* one call of Quest.is_accomplished
IsAccomplished ==
    /\ op' = "is_accomplished"
    /\ observed' = ToString(is_accomplished(quest_meta, current_status))
    /\ UNCHANGED <<quest_meta, current_status, x, outcome, old_status>>
    /\ UNCHANGED <<postVars, formatVars, wolfVars, gameVars>>

\* one call of Quest.introduction
Introduction ==
    /\ op' = "introduction"
    /\ observed' = prompt(quest_meta)
    /\ UNCHANGED <<quest_meta, current_status, x, outcome, old_status>>
    /\ UNCHANGED <<postVars, formatVars, wolfVars, gameVars>>

\* _current_status_str emptying the dict that it formats
CurrentStatusStr_draining ==
    /\ op' = "_current_status_str"
    /\ observed' = _current_status_str(current_status)
    /\ current_status' = <<>>
    /\ UNCHANGED <<quest_meta, x, outcome, old_status>>
    /\ UNCHANGED <<postVars, formatVars, wolfVars, gameVars>>

\* one call of Quest._current_status_str
CurrentStatusStr ==
    /\ op' = "_current_status_str"
    /\ observed' = _current_status_str(current_status)
    /\ UNCHANGED <<quest_meta, current_status, x, outcome, old_status>>
    /\ UNCHANGED <<postVars, formatVars, wolfVars, gameVars>>

\* the methods of Quest called in any order
NextMethods == Reply \/ IsAccomplished \/ Introduction \/ CurrentStatusStr

SpecMethods == Init /\ [][NextMethods]_vars

(***************************************************************************)
(* Vocabulary of the properties.                                           *)
(***************************************************************************)
\* the last call returned a Msg
Returned == outcome.called /\ outcome.raised = ""

\* x is a record of the quest's owner with a material_submission mapping
OwnerSubmission ==
    /\ x.is_dict
    /\ x.agent_id = quest_meta.agent_id
    /\ x.material_submission.shape = "dict"

Items == x.material_submission.items

\* every quantity of the submission is an integer
IntegerQuantities == \A i \in 1..Len(Items) : Items[i].v.kind = "int"

\* the cumulative quantity of a material, 0 when the ledger has no entry
AmountOf(status, material) == DictGet(status, material, IntAmount(0)).amount

\* the positive quantity that a submission names for a material, else 0
PositiveQuantity(items, material) ==
    IF /\ DictHas(items, material)
       /\ IsNumber(DictGet(items, material, IntAmount(0)))
       /\ DictGet(items, material, IntAmount(0)).amount > 0
    THEN DictGet(items, material, IntAmount(0)).amount
    ELSE 0

\* an entry whose quantity is a number that is zero or negative
NonPositiveEntry(e) == IsNumber(e.v) /\ e.v.amount <= 0

PositiveOrOtherEntry(e) == ~NonPositiveEntry(e)

InvalidReasons ==
    {"x must be a dict",
     "agent_id not existed or invalid",
     "material_submission not existed"}

(***************************************************************************)
(* Properties of Quest.reply.                                              *)
(***************************************************************************)
\* C1: a submission whose agent_id is absent or differs, case-sensitively,
\* from the owner's agent_id is answered with valid = false and
\* finished = false, and current_status is what it was before the call.
C1_ForeignAgentRejected ==
    (outcome.called /\ (x.agent_id = Absent \/ x.agent_id # quest_meta.agent_id)) =>
        /\ outcome.raised = ""
        /\ outcome.content.valid = FALSE
        /\ outcome.content.finished = FALSE
        /\ current_status = old_status

\* a submission of lumber under the owner's name in another case, sent to
\* a ledger that already holds lumber
C1_Witness ==
    /\ Returned
    /\ x.is_dict
    /\ x.agent_id = "NPC1"
    /\ quest_meta.agent_id = "npc1"
    /\ x.material_submission.shape = "dict"
    /\ Items = <<[k |-> "lumber", v |-> IntAmount(5)]>>
    /\ old_status # <<>>
    /\ outcome.content.valid = FALSE

\* C2: a submission of the owner that names, with a positive quantity, a
\* material type that the quest does not require is accepted: reply
\* returns valid = true, reports finished by the unchanged totals and
\* leaves current_status unchanged.
C2_UnrequiredMaterialAccepted ==
    (/\ outcome.called
     /\ OwnerSubmission
     /\ Len(Items) = 1
     /\ ~DictHas(quest_meta.materials_requirement, Items[1].k)
     /\ Items[1].v.kind = "int"
     /\ Items[1].v.amount > 0) =>
        /\ outcome.raised = ""
        /\ outcome.content.valid = TRUE
        /\ outcome.content.finished = is_accomplished(quest_meta, old_status)
        /\ current_status = old_status

\* C3: reply never ends in a raised error: every call returns a content
\* with the fields valid, finished and message.
C3_ReplyNeverRaises ==
    outcome.called =>
        /\ outcome.raised = ""
        /\ {"valid", "finished", "message"} \subseteq DOMAIN outcome.content

\* C4: when validation fails (x is no record, agent_id is missing or
\* wrong, material_submission is missing or no mapping) reply returns
\* exactly valid = false, finished = false and the message
\* "Invalid submission: <reason>", without hint, and current_status is
\* unchanged.
C4_InvalidSubmissionResult ==
    (outcome.called /\ ~OwnerSubmission) =>
        /\ outcome.raised = ""
        /\ \E reason \in InvalidReasons :
               outcome.content = [valid |-> FALSE,
                                  finished |-> FALSE,
                                  message |-> "Invalid submission: " \o reason]
        /\ "hint" \notin DOMAIN outcome.content
        /\ current_status = old_status

\* the owner sends a material_submission that is no mapping to a ledger
\* that already holds lumber
C4_Witness ==
    /\ Returned
    /\ x.is_dict
    /\ x.agent_id = quest_meta.agent_id
    /\ x.material_submission.shape = "other"
    /\ old_status # <<>>
    /\ outcome.content.message = "Invalid submission: material_submission not existed"

\* C5: in every reachable state is_accomplished() is true if and only if
\* the cumulative quantity of every required material is at least the
\* required quantity; with an empty requirement it is true from the start.
C5_AccomplishedIffAllMet ==
    /\ is_accomplished(quest_meta, current_status)
           <=> \A i \in 1..Len(quest_meta.materials_requirement) :
                   AmountOf(current_status, quest_meta.materials_requirement[i].k)
                       >= quest_meta.materials_requirement[i].v.amount
    /\ (quest_meta.materials_requirement = <<>> /\ ~outcome.called)
           => is_accomplished(quest_meta, current_status)

\* the ledger holds exactly the required quantity of lumber
C5_Witness ==
    /\ outcome.called
    /\ quest_meta.materials_requirement # <<>>
    /\ AmountOf(current_status, "lumber") = quest_meta.materials_requirement[1].v.amount
    /\ is_accomplished(quest_meta, current_status)

\* C6: over every call of reply, valid or not, no cumulative quantity
\* decreases and no entry leaves current_status.
C6_LedgerNeverDecreases ==
    \A i \in 1..Len(old_status) :
        /\ DictHas(current_status, old_status[i].k)
        /\ AmountOf(current_status, old_status[i].k) >= old_status[i].v.amount

\* a call that added to an entry of the ledger
C6_Witness ==
    /\ outcome.called
    /\ old_status # <<>>
    /\ AmountOf(current_status, "lumber") > AmountOf(old_status, "lumber")

\* C7: every valid submission gets a result with valid = true and
\* finished = is_accomplished() of the ledger after the submission; a
\* finished result carries finished_msg and no hint, an unfinished one
\* carries unfinished_msg filled with the new totals, and the hint.
C7_ValidSubmissionResult ==
    (outcome.called /\ OwnerSubmission /\ IntegerQuantities) =>
        /\ outcome.raised = ""
        /\ outcome.content.valid = TRUE
        /\ outcome.content.finished = is_accomplished(quest_meta, current_status)
        /\ outcome.content.finished =>
               /\ outcome.content.message = quest_meta.finished_msg
               /\ "hint" \notin DOMAIN outcome.content
        /\ ~outcome.content.finished =>
               /\ outcome.content.message =
                      format_map(quest_meta.unfinished_msg,
                                 _current_status_str(current_status))
               /\ "hint" \in DOMAIN outcome.content
               /\ outcome.content.hint = quest_meta.hint

\* C8: when the owner submits a positive integer quantity of the one
\* required material, the quantity is added to the running total and the
\* reply reports finished exactly when the new total has reached the
\* required quantity, then with finished_msg as message; so 5 and 5
\* against a requirement of 10 give finished = false, then finished = true.
C8_FinishedWhenTotalReached ==
    (/\ outcome.called
     /\ OwnerSubmission
     /\ Len(quest_meta.materials_requirement) = 1
     /\ Len(Items) = 1
     /\ Items[1].k = quest_meta.materials_requirement[1].k
     /\ Items[1].v.kind = "int"
     /\ Items[1].v.amount > 0) =>
        LET material == Items[1].k
            total == AmountOf(old_status, material) + Items[1].v.amount
        IN  /\ outcome.raised = ""
            /\ AmountOf(current_status, material) = total
            /\ outcome.content.finished =
                   (total >= quest_meta.materials_requirement[1].v.amount)
            /\ outcome.content.finished =>
                   outcome.content.message = quest_meta.finished_msg

\* the second of two submissions of 5 lumber against a requirement of 10
C8_Witness ==
    /\ Returned
    /\ OwnerSubmission
    /\ quest_meta.materials_requirement = <<[k |-> "lumber", v |-> IntAmount(10)]>>
    /\ old_status = <<[k |-> "lumber", v |-> IntAmount(5)]>>
    /\ Items = <<[k |-> "lumber", v |-> IntAmount(5)]>>
    /\ outcome.content.finished = TRUE
    /\ outcome.content.message = DefaultFinishedMsg

\* C9: in a valid submission the entries with a zero or negative quantity
\* are skipped, whatever their material identifier: the call ends as it
\* does for the submission without these entries, and a submission of
\* such entries only returns and leaves current_status unchanged.
C9_NonPositiveEntriesSkipped ==
    (outcome.called /\ OwnerSubmission) =>
        LET rest == [x EXCEPT !.material_submission.items =
                                   SelectSeq(@, PositiveOrOtherEntry)]
            r == reply(quest_meta, old_status, rest)
        IN  /\ outcome.raised = r.raised
            /\ outcome.content = r.content
            /\ current_status = r.current_status
            /\ (\A i \in 1..Len(Items) : NonPositiveEntry(Items[i])) =>
                   /\ outcome.raised = ""
                   /\ current_status = old_status

\* a submission with a non-positive quantity of an unknown material and
\* an entry that was credited
C9_Witness ==
    /\ Returned
    /\ OwnerSubmission
    /\ \E i \in 1..Len(Items) : NonPositiveEntry(Items[i]) /\ Items[i].k = "stone"
    /\ current_status # old_status

\* C10: each call adds to the cumulative quantity of each required
\* material the positive quantity that a valid submission names for it,
\* and an invalid submission adds nothing; so a cumulative quantity is
\* the sum of these quantities over the valid submissions in call order.
C10_LedgerIsSumOfSubmissions ==
    outcome.called =>
        IF OwnerSubmission
        THEN IntegerQuantities =>
                 \A i \in 1..Len(quest_meta.materials_requirement) :
                     LET material == quest_meta.materials_requirement[i].k
                     IN  AmountOf(current_status, material)
                             = AmountOf(old_status, material)
                                   + PositiveQuantity(Items, material)
        ELSE current_status = old_status

\* C16: reply applies a submission atomically: either every creditable
\* entry is added to current_status and a result is returned, or
\* current_status is left as it was before the call.
C16_SubmissionAtomic ==
    (outcome.called /\ OwnerSubmission /\ IntegerQuantities) =>
        \/ current_status = old_status
        \/ /\ outcome.raised = ""
           /\ \A i \in 1..Len(quest_meta.materials_requirement) :
                  LET material == quest_meta.materials_requirement[i].k
                  IN  AmountOf(current_status, material)
                          = AmountOf(old_status, material)
                                + PositiveQuantity(Items, material)

\* C17: every material recorded in current_status is a required material
\* and its recorded quantity is strictly positive; the ledger starts empty.
C17_LedgerHoldsRequiredPositive ==
    /\ \A i \in 1..Len(current_status) :
           /\ DictHas(quest_meta.materials_requirement, current_status[i].k)
           /\ current_status[i].v.amount > 0
    /\ op = "__init__" => current_status = <<>>

\* the owner submitted lumber to a quest that requires nothing, and the
\* ledger stayed empty
C17_Witness ==
    /\ Returned
    /\ OwnerSubmission
    /\ quest_meta.materials_requirement = <<>>
    /\ Items = <<[k |-> "lumber", v |-> IntAmount(5)]>>
    /\ outcome.content.valid = TRUE
    /\ current_status = <<>>

\* C18: once is_accomplished() is true it is true after every later call
\* of reply, valid or not; a later valid submission is still credited and
\* its reply reports finished = true.
C18_AccomplishedIsStable ==
    (outcome.called /\ is_accomplished(quest_meta, old_status)) =>
        /\ is_accomplished(quest_meta, current_status)
        /\ (OwnerSubmission /\ IntegerQuantities) =>
               /\ outcome.raised = ""
               /\ outcome.content.finished = TRUE
               /\ \A i \in 1..Len(quest_meta.materials_requirement) :
                      LET material == quest_meta.materials_requirement[i].k
                      IN  AmountOf(current_status, material)
                              = AmountOf(old_status, material)
                                    + PositiveQuantity(Items, material)

\* C19: the checks of _validate run in a fixed order and the first one
\* that fails gives the reason: no record, then agent_id missing or not
\* the owner's, then material_submission missing or no mapping; a request
\* wrong in agent_id and in material_submission gets the agent_id reason.
C19_FirstFailingCheckReported ==
    outcome.called =>
        /\ ~x.is_dict =>
               /\ outcome.raised = ""
               /\ outcome.content.message = "Invalid submission: x must be a dict"
        /\ (x.is_dict /\ (x.agent_id = Absent \/ x.agent_id # quest_meta.agent_id)) =>
               /\ outcome.raised = ""
               /\ outcome.content.message
                      = "Invalid submission: agent_id not existed or invalid"
        /\ (/\ x.is_dict
            /\ x.agent_id = quest_meta.agent_id
            /\ x.material_submission.shape # "dict") =>
               /\ outcome.raised = ""
               /\ outcome.content.message
                      = "Invalid submission: material_submission not existed"

\* a request with another agent's name and without material_submission
C19_Witness ==
    /\ Returned
    /\ x.is_dict
    /\ x.agent_id = "NPC1"
    /\ x.material_submission.shape = "absent"
    /\ outcome.content.message = "Invalid submission: agent_id not existed or invalid"

(***************************************************************************)
(* Properties of the methods of Quest.                                     *)
(***************************************************************************)
\* C11: only reply changes the ledger: is_accomplished, introduction and
\* _current_status_str leave current_status unchanged, and no method,
\* reply included, changes the owner's agent_id or materials_requirement.
C11_OnlyReplyChangesLedger ==
    [][/\ op' # "reply" => current_status' = current_status
       /\ quest_meta'.agent_id = quest_meta.agent_id
       /\ quest_meta'.materials_requirement = quest_meta.materials_requirement]_vars

\* _current_status_str was called on a ledger that holds lumber, and
\* returned what it computes from that ledger
C11_Witness ==
    /\ op = "_current_status_str"
    /\ current_status = <<[k |-> "lumber", v |-> IntAmount(5)]>>
    /\ observed = "{\"lumber\": 5}"

(***************************************************************************)
(* PostAPIModelWrapperBase.__call__ (post_model.py).                       *)
(* requests.post and time.sleep are calls out of the program: __call__ is  *)
(* one action per such call, and post_pc is the place where it stands.     *)
(***************************************************************************)
\* requests.codes.ok
codes_ok == 200

\* the status codes that a response carries
StatusCodes == {200, 429, 500}

\* the values of retry_interval
RetryIntervals == {1, 2}

Unbound == [bound |-> FALSE, status_code |-> 0, body |-> 0]

\* PostAPIModelWrapperBase._parse_response
_parse_response(body) == [raw |-> body]

\* the requests.post calls among the events
Posts(evs) == SelectSeq(evs, LAMBDA e : e.call = "post")

\* line 144 waiting after every failed attempt
ShouldSleep_always(n, retries) == TRUE

\* line 144: i < self.max_retries
ShouldSleep(n, retries) == n < retries

\* line 138: the loop goes on with i = n, or ends after the last value
ForNext(n) ==
    IF n <= max_retries
    THEN post_pc' = "post" /\ post_i' = n
    ELSE post_pc' = "record" /\ UNCHANGED post_i

\* PostAPIModelWrapperBase.__init__ with some max_retries and retry_interval
PostInit ==
    /\ QuestIdle
    /\ FormatIdle
    /\ WolfIdle
    /\ GameIdle
    /\ max_retries \in 0..MaxMaxRetries
    /\ retry_interval \in RetryIntervals
    /\ post_pc = "idle"
    /\ post_i = 0
    /\ response = Unbound
    /\ events = <<>>
    /\ post_result = [raised |-> "", returned |-> <<>>]

\* lines 128-138: __call__ is entered and reaches the for statement
Call ==
    /\ post_pc = "idle"
    /\ ForNext(1)
    /\ UNCHANGED <<max_retries, retry_interval, response, events, post_result>>
    /\ UNCHANGED <<questVars, formatVars, wolfVars, gameVars>>

\* lines 139-144: requests.post returns a response with some status code
Post ==
    /\ post_pc = "post"
    /\ \E status_code \in StatusCodes :
           /\ response' = [bound |-> TRUE,
                           status_code |-> status_code,
                           body |-> Len(Posts(events)) + 1]
           /\ events' = Append(events, [call |-> "post",
                                        status_code |-> status_code,
                                        seconds |-> 0])
           /\ IF status_code = codes_ok
              THEN post_pc' = "record" /\ UNCHANGED post_i
              ELSE IF ShouldSleep(post_i, max_retries)
                   THEN post_pc' = "sleep" /\ UNCHANGED post_i
                   ELSE ForNext(post_i + 1)
    /\ UNCHANGED <<max_retries, retry_interval, post_result>>
    /\ UNCHANGED <<questVars, formatVars, wolfVars, gameVars>>

\* line 150: time.sleep(i * self.retry_interval), then the next iteration
Sleep ==
    /\ post_pc = "sleep"
    /\ events' = Append(events, [call |-> "sleep",
                                 status_code |-> 0,
                                 seconds |-> post_i * retry_interval])
    /\ ForNext(post_i + 1)
    /\ UNCHANGED <<max_retries, retry_interval, response, post_result>>
    /\ UNCHANGED <<questVars, formatVars, wolfVars, gameVars>>

\* lines 155-167: response.json() is read, then the response is parsed and
\* returned, or RuntimeError is raised
Record ==
    /\ post_pc = "record"
    /\ post_pc' = "done"
    /\ post_result' =
           IF ~response.bound
           THEN \* response was never assigned
                [raised |-> "UnboundLocalError", returned |-> <<>>]
           ELSE IF response.status_code = codes_ok
           THEN [raised |-> "", returned |-> _parse_response(response.body)]
           ELSE [raised |-> "RuntimeError", returned |-> <<>>]
    /\ UNCHANGED <<max_retries, retry_interval, post_i, response, events>>
    /\ UNCHANGED <<questVars, formatVars, wolfVars, gameVars>>

PostNext == Call \/ Post \/ Sleep \/ Record

SpecPost == PostInit /\ [][PostNext]_vars

\* C13: one call issues at most max_retries POST requests and none after
\* the first response with status OK; it waits between two consecutive
\* requests, and does not wait after the last failed attempt.
C13_RetryLoopRequests ==
    /\ Len(Posts(events)) <= max_retries
    /\ \A k \in 1..Len(events) :
           /\ (events[k].call = "post" /\ events[k].status_code = codes_ok)
                  => k = Len(events)
           /\ (events[k].call = "post" /\ k < Len(events))
                  => events[k + 1].call = "sleep"
           /\ events[k].call = "sleep"
                  => /\ k > 1
                     /\ events[k - 1].call = "post"
                     /\ Len(Posts(SubSeq(events, 1, k))) < max_retries
    /\ post_pc \in {"record", "done"}
           => (events = <<>> \/ events[Len(events)].call = "post")

\* a call that made max_retries requests, all failed, with a wait between
\* each two of them and none after the last
C13_Witness ==
    /\ post_pc = "done"
    /\ max_retries = 3
    /\ Len(events) = 5
    /\ events[4].call = "sleep"
    /\ events[5].call = "post"
    /\ post_result.raised = "RuntimeError"

\* C14: for every max_retries and every sequence of response statuses the
\* call ends in one of two ways: it returns the parsed first OK response,
\* or, when all max_retries attempts got a status that is not OK, it
\* raises RuntimeError; no response that is not OK is returned.
C14_ReturnsFirstOkOrRuntimeError ==
    post_pc = "done" =>
        LET posts == Posts(events)
        IN  \/ /\ post_result.raised = ""
               /\ \E k \in 1..Len(posts) :
                      /\ posts[k].status_code = codes_ok
                      /\ \A j \in 1..(k - 1) : posts[j].status_code # codes_ok
                      /\ post_result.returned = [raw |-> k]
            \/ /\ post_result.raised = "RuntimeError"
               /\ Len(posts) = max_retries
               /\ \A j \in 1..Len(posts) : posts[j].status_code # codes_ok

(***************************************************************************)
(* XverseChatWrapper.format (xverse_model.py).                             *)
(* An argument is None, a Msg with a role and a content, a list of         *)
(* arguments, or a value of another type.                                  *)
(***************************************************************************)
NoneArg == [kind |-> "none", role |-> "", content |-> 0, items |-> <<>>]
MsgArg(role, content) ==
    [kind |-> "msg", role |-> role, content |-> content, items |-> <<>>]
ListArg(items) == [kind |-> "list", role |-> "", content |-> 0, items |-> items]
OtherArg == [kind |-> "other", role |-> "", content |-> 0, items |-> <<>>]

Roles == {"system", "assistant", "user"}
Contents == {1, 2}

Msgs == {MsgArg(role, content) : role \in Roles, content \in Contents}

\* the sequences of at most n elements of a set
SeqsUpTo(set, n) == UNION {[1..m -> set] : m \in 0..n}

\* the arguments of format: at most MaxArgs of them, the lists among
\* them of at most MaxArgs Msg objects and None
FormatArgs ==
    SeqsUpTo({NoneArg, OtherArg} \cup Msgs
                 \cup {ListArg(l) : l \in SeqsUpTo(Msgs \cup {NoneArg}, MaxArgs)},
             MaxArgs)

\* _convert_to_str of a content that is a number
_convert_to_str(content) == ToString(content)

\* lines 237-238: the role of the last of several messages becomes "user"
CheckRole(messages) ==
    IF Len(messages) > 1
    THEN [messages EXCEPT ![Len(messages)].role = "user"]
    ELSE messages

\* XverseChatWrapper.format: format is the method, FormatLoop its loop over
\* args from argument n on; a list argument is formatted by a call of
\* format itself
RECURSIVE format(_)
RECURSIVE FormatLoop(_, _, _)
FormatLoop(as, n, messages) ==
    IF n > Len(as)
    THEN [raised |-> "", messages |-> messages]
    ELSE LET arg == as[n]
         IN  IF arg.kind = "none"
             THEN FormatLoop(as, n + 1, messages)
             ELSE IF arg.kind = "msg"
             THEN FormatLoop(as, n + 1,
                             Append(messages,
                                    [role |-> arg.role,
                                     content |-> _convert_to_str(arg.content)]))
             ELSE IF arg.kind = "list"
             THEN LET inner == format(arg.items)
                  IN  IF inner.raised # ""
                      THEN [raised |-> inner.raised, messages |-> <<>>]
                      ELSE FormatLoop(as, n + 1, messages \o inner.messages)
             ELSE [raised |-> "TypeError", messages |-> <<>>]

format(as) ==
    LET loop == FormatLoop(as, 1, <<>>)
    IN  IF loop.raised # ""
        THEN loop
        ELSE [raised |-> "", messages |-> CheckRole(loop.messages)]

FormatInit ==
    /\ QuestIdle
    /\ PostIdle
    /\ WolfIdle
    /\ GameIdle
    /\ args \in FormatArgs
    /\ formatted = [called |-> FALSE, raised |-> "", messages |-> <<>>]

\* one call of XverseChatWrapper.format
Format ==
    /\ ~formatted.called
    /\ \E r \in {format(args)} :
           formatted' = [called |-> TRUE, raised |-> r.raised, messages |-> r.messages]
    /\ UNCHANGED <<args, questVars, postVars, wolfVars, gameVars>>

FormatNext == Format

SpecFormat == FormatInit /\ [][FormatNext]_vars

\* the Msg objects of the arguments in argument order, the lists among
\* the arguments flattened and None left out
RECURSIVE SourceMsgs(_)
SourceMsgs(as) ==
    IF as = <<>>
    THEN <<>>
    ELSE LET arg == Head(as)
         IN  (IF arg.kind = "msg" THEN <<arg>>
              ELSE IF arg.kind = "list" THEN SourceMsgs(arg.items)
              ELSE <<>>)
                 \o SourceMsgs(Tail(as))

\* C15: in every non-empty result of format the last message has the role
\* "user"; every other message keeps the role of its source message, None
\* arguments are skipped and nested lists are flattened in argument order.
C15_LastRoleIsUser ==
    (formatted.called /\ formatted.raised = "" /\ formatted.messages # <<>>) =>
        LET messages == formatted.messages
            source == SourceMsgs(args)
        IN  /\ messages[Len(messages)].role = "user"
            /\ Len(messages) = Len(source)
            /\ \A n \in 1..Len(messages) :
                   /\ messages[n].content = ToString(source[n].content)
                   /\ n < Len(messages) => messages[n].role = source[n].role

(***************************************************************************)
(* The werewolf game (myapps/game_werewolf/werewolf.py, main).             *)
(* A player is its name.  The helpers of werewolf_utils are not part of    *)
(* the sources; majority_vote is modelled after the description of the     *)
(* vote tally.  Every night ends with an exception, at line 102 or at      *)
(* line 113, so the model ends where the first night does.                 *)
(***************************************************************************)
\* line 34: MAX_GAME_ROUND of werewolf.main
WOLF_MAX_GAME_ROUND == 6

\* lines 22-25: the roles, in English
ROLE_WEREWOLF == "werewolf"
ROLE_VILLAGER == "villager"
ROLE_SEER == "seer"
ROLE_WITCH == "witch"

\* line 41
roles == <<ROLE_WEREWOLF, ROLE_WEREWOLF, ROLE_VILLAGER, ROLE_VILLAGER, ROLE_SEER, ROLE_WITCH>>

\* line 41 and the agents that agentscope.init returns for it
Players == <<"Player1", "Player2", "Player3", "Player4", "Player5", "Player6">>

\* line 42: survivors[-1] and survivors[-2]
witch == Players[Len(Players)]
seer == Players[Len(Players) - 1]

InList(name, list) == \E n \in 1..Len(list) : list[n] = name

\* the result of majority_vote when no vote is valid; its len is 0 (line 151)
NoWinner == ""

\* how many of the votes name the candidate
VoteCount(vs, candidate) == Cardinality({n \in 1..Len(vs) : vs[n] = candidate})

\* majority_vote: the results it may have, one of the candidates with the
\* highest count of the votes that are not empty, NoWinner when there is none
majority_vote(vs) ==
    LET candidates == {vs[n] : n \in 1..Len(vs)} \ {""}
    IN  IF candidates = {}
        THEN {NoWinner}
        ELSE {c \in candidates :
                 \A d \in candidates : VoteCount(vs, d) <= VoteCount(vs, c)}

\* what extract_name_and_id makes of a reply: the name and whether it is valid
Extracted ==
    {[name |-> name, valid |-> TRUE] : name \in {Players[n] : n \in 1..Len(Players)} \cup {""}}
        \cup {[name |-> Players[1], valid |-> FALSE]}

\* lines 58-61: the votes of the wolves from wolf n on
RECURSIVE CollectVotes(_, _, _)
CollectVotes(replies, n, vs) ==
    IF n > Len(replies)
    THEN vs
    ELSE CollectVotes(replies, n + 1,
                      IF replies[n].valid /\ Len(replies[n].name) # 0
                      THEN Append(vs, replies[n].name)
                      ELSE vs)

Hint(to, text, name) == [to |-> to, prompt |-> text, name |-> name]

\* lines 32-42: the state when the first night begins
WolfInit ==
    /\ QuestIdle
    /\ PostIdle
    /\ FormatIdle
    /\ GameIdle
    /\ survivors = Players
    /\ wolves = SubSeq(Players, 1, 2)
    /\ healing = TRUE
    /\ poison = TRUE
    /\ wolf_pc = "wolves"
    /\ votes = <<>>
    /\ dead_player = <<>>
    /\ healing_used_tonight = FALSE
    /\ hints = <<>>
    /\ wolf_raised = ""
    /\ night = 1
    /\ answers = <<>>

\* lines 47-71: the wolves discuss and vote, the result is broadcast to them
WolvesVote ==
    /\ wolf_pc = "wolves"
    /\ \E replies \in [1..Len(wolves) -> Extracted] :
           \E vs \in {CollectVotes(replies, 1, <<>>)} :
               \E winner \in majority_vote(vs) :
                   /\ votes' = vs
                   /\ dead_player' = <<winner>>
                   /\ hints' = hints \o
                          <<Hint("wolves", "to_wolves", ""),
                            Hint("wolves", "to_wolves_vote", ""),
                            IF Len(<<winner>>) = 0
                            THEN Hint("wolves", "to_wolves_res_empty", "")
                            ELSE Hint("wolves", "to_wolves_res", winner)>>
    /\ wolf_pc' = "witch"
    /\ UNCHANGED <<survivors, wolves, healing, poison, healing_used_tonight,
                   wolf_raised, night, answers>>
    /\ UNCHANGED <<questVars, postVars, formatVars, gameVars>>

\* a reply of the witch or the seer: the night, the prompt it answers, the
\* value of its field resurrect or eliminate, and what extract_name_and_id
\* makes of it
Answer(from, text, flag, extracted) ==
    [from |-> from, night |-> night, prompt |-> text, flag |-> flag,
     name |-> extracted.name, valid |-> extracted.valid]

\* lines 75-76: witch in survivors, and healing
MayResurrect == InList(witch, survivors) /\ healing

\* lines 74-95: the witch is told the result and may resurrect
WitchResurrect ==
    /\ wolf_pc = "witch"
    /\ wolf_pc' = "poison"
    /\ IF MayResurrect
       THEN /\ hints' = Append(hints,
                               IF Len(dead_player) = 0
                               THEN Hint("witch", "to_witch_no_dead", "")
                               ELSE Hint("witch", "to_witch_has_dead", dead_player[1]))
            /\ \E resurrect \in BOOLEAN :
                   /\ answers' = Append(answers,
                                        Answer("witch", "to_witch_resurrect", resurrect,
                                               [name |-> "", valid |-> FALSE]))
                   /\ IF resurrect
                      THEN /\ healing_used_tonight' = TRUE
                           /\ dead_player' = SubSeq(dead_player, 1, Len(dead_player) - 1)
                           /\ healing' = FALSE
                      ELSE /\ healing_used_tonight' = FALSE
                           /\ UNCHANGED <<dead_player, healing>>
       ELSE /\ healing_used_tonight' = FALSE
            /\ UNCHANGED <<hints, answers, dead_player, healing>>
    /\ UNCHANGED <<survivors, wolves, poison, votes, wolf_raised, night>>
    /\ UNCHANGED <<questVars, postVars, formatVars, gameVars>>

\* lines 75 and 97 without the test of healing_used_tonight
MayPoison_after_healing == InList(witch, survivors) /\ poison

\* lines 75 and 97: witch in survivors, and poison and not healing_used_tonight
MayPoison == InList(witch, survivors) /\ poison /\ ~healing_used_tonight

\* lines 97-103: the witch may poison; dead_player.append() has no
\* argument and raises TypeError
WitchPoison ==
    /\ wolf_pc = "poison"
    /\ IF MayPoison
       THEN /\ hints' = Append(hints, Hint("witch", "to_witch_poison", ""))
            /\ \E eliminate \in BOOLEAN, extracted \in Extracted :
                   /\ answers' = Append(answers,
                                        Answer("witch", "to_witch_poison", eliminate, extracted))
                   /\ IF eliminate /\ extracted.valid /\ Len(extracted.name) # 0
                      THEN wolf_pc' = "raised" /\ wolf_raised' = "TypeError"
                      ELSE wolf_pc' = "seer" /\ UNCHANGED wolf_raised
       ELSE wolf_pc' = "seer" /\ UNCHANGED <<hints, answers, wolf_raised>>
    /\ UNCHANGED <<survivors, wolves, healing, poison, votes, dead_player,
                   healing_used_tonight, night>>
    /\ UNCHANGED <<questVars, postVars, formatVars, gameVars>>

\* lines 106-115: the seer is asked and replies; line 113 reads the local
\* role, which has no value yet, and raises UnboundLocalError
Seer ==
    /\ wolf_pc = "seer"
    /\ IF InList(seer, survivors)
       THEN /\ hints' = Append(hints, Hint("seer", "to_seer", ""))
            /\ \E extracted \in Extracted :
                   answers' = Append(answers, Answer("seer", "to_seer", FALSE, extracted))
            /\ wolf_pc' = "raised"
            /\ wolf_raised' = "UnboundLocalError"
       ELSE /\ wolf_pc' = "update"
            /\ UNCHANGED <<hints, answers, wolf_raised>>
    /\ UNCHANGED <<survivors, wolves, healing, poison, votes, dead_player,
                   healing_used_tonight, night>>
    /\ UNCHANGED <<questVars, postVars, formatVars, gameVars>>

WolfNext == WolvesVote \/ WitchResurrect \/ WitchPoison \/ Seer

SpecWolf == WolfInit /\ [][WolfNext]_vars

\* the prompts sent so far that carry the given text
HintsOf(text) == SelectSeq(hints, LAMBDA h : h.prompt = text)

\* C12: when the vote of the wolves has no winner, the night has no
\* elimination: the wolves are told that nobody was eliminated, the dead
\* list is empty, and the witch is told that nobody died.
C12_NoWinnerIsNoElimination ==
    (wolf_pc \notin {"off", "wolves"} /\ votes = <<>>) =>
        /\ HintsOf("to_wolves_res_empty") # <<>>
        /\ HintsOf("to_wolves_res") = <<>>
        /\ HintsOf("to_witch_has_dead") = <<>>
        /\ dead_player = <<>>

(***************************************************************************)
(* The quest game (myapps/game_companion/code/game.py, main).              *)
(* A quest is the record of its quest_meta and its current_status; the     *)
(* set accomplished_quest holds the indices of its quests.  The texts of   *)
(* the game are given in English.                                          *)
(***************************************************************************)
MAX_GAME_ROUND == 5

\* lines 28-32: the agents that agentscope.init returns
Npcs == <<"npc1", "npc2">>

\* lines 35-45: the QuestMeta of the quest of one npc
GameQuestMeta(agent_id) ==
    [name |-> "find lumber",
     agent_id |-> agent_id,
     description |-> "submit 10 lumber and build your cabin",
     hint |-> "Please submit the quest materials in the required format.",
     unfinished_msg |->
         Template("The materials are submitted, but the quest is not finished. Submitted: ", ""),
     finished_msg |-> "Congratulations, your quest is finished!",
     materials_requirement |-> <<[k |-> "lumber", v |-> IntAmount(10)]>>]

\* lines 49-64: the content of the first prompt of an npc
GuideContent(npc, quest) ==
    [message |-> npc \o ", you own 10 lumber. Quest: " \o prompt(quest.quest_meta)]

\* a reply that is a dict with an agent_id and a material_submission
Submit(agent_id, type_id, amount) ==
    [is_dict |-> TRUE,
     agent_id |-> agent_id,
     material_submission |->
         [shape |-> "dict", items |-> <<[k |-> type_id, v |-> amount]>>]]

\* line 81: the replies of npc i to its prompt
NpcReplies(i) ==
    {NotADict,
     Submit(Npcs[i], "lumber", IntAmount(5)),
     Submit(Npcs[i], "lumber", IntAmount(10)),
     Submit(Npcs[i], "lumber", IntAmount(0)),
     Submit(Npcs[i], "stone", IntAmount(5)),
     [is_dict |-> TRUE,
      agent_id |-> Npcs[i],
      material_submission |->
          [shape |-> "dict",
           items |-> <<[k |-> "lumber", v |-> IntAmount(10)],
                       [k |-> "stone", v |-> IntAmount(5)]>>]],
     Submit(Npcs[(i % Len(Npcs)) + 1], "lumber", IntAmount(5))}

\* line 77 without the check
PreInspect_never(quest) == FALSE

\* line 77 taking every quest for accomplished
PreInspect_always(quest) == TRUE

\* line 77: quest.is_accomplished() before the npc is prompted
PreInspect(quest) == is_accomplished(quest.quest_meta, quest.current_status)

\* the turn that no npc has taken yet
NoTurn ==
    [round |-> 0, i |-> 0, accomplished |-> FALSE, prompted |-> FALSE,
     prompt |-> <<>>, msg |-> NotADict]

\* lines 28-69: the quests and the first prompts, no round played
GameInit ==
    /\ QuestIdle
    /\ PostIdle
    /\ FormatIdle
    /\ WolfIdle
    /\ quests = [i \in 1..Len(Npcs) |->
                    [quest_meta |-> GameQuestMeta(Npcs[i]), current_status |-> <<>>]]
    /\ guide_msgs = [i \in 1..Len(Npcs) |->
                        GuideContent(Npcs[i],
                                     [quest_meta |-> GameQuestMeta(Npcs[i]),
                                      current_status |-> <<>>])]
    /\ accomplished_quest = {}
    /\ cur_round = 0
    /\ game_pc = "while"
    /\ npc_i = 0
    /\ turn = NoTurn
    /\ game_raised = ""

\* line 70 without the bound on the rounds
LoopCondition_unbounded(accomplished, round) == accomplished < Len(quests)

\* line 70: len(accomplished_quest) < len(quests) and cur_round < MAX_GAME_ROUND
LoopCondition(accomplished, round) ==
    accomplished < Len(quests) /\ round < MAX_GAME_ROUND

\* lines 70-73 and 89: the loop condition; a round begins or the game ends
While ==
    /\ game_pc = "while"
    /\ IF LoopCondition(Cardinality(accomplished_quest), cur_round)
       THEN /\ cur_round' = cur_round + 1
            /\ npc_i' = 1
            /\ game_pc' = "for"
       ELSE /\ game_pc' = "done"
            /\ UNCHANGED <<cur_round, npc_i>>
    /\ UNCHANGED <<quests, guide_msgs, accomplished_quest, turn, game_raised>>
    /\ UNCHANGED <<questVars, postVars, formatVars, wolfVars>>

\* lines 73 and 87: the next npc of the round, or the end of the round
ForNpc(i) ==
    IF i <= Len(Npcs)
    THEN npc_i' = i /\ game_pc' = "for"
    ELSE UNCHANGED npc_i /\ game_pc' = "while"

\* lines 74-85: the turn of npc i
Turn ==
    /\ game_pc = "for"
    /\ LET i == npc_i
           quest == quests[i]
           before == is_accomplished(quest.quest_meta, quest.current_status)
       IN  IF PreInspect(quest)
           THEN /\ accomplished_quest' = accomplished_quest \cup {i}
                /\ turn' = [round |-> cur_round, i |-> i, accomplished |-> before,
                            prompted |-> FALSE, prompt |-> <<>>, msg |-> NotADict]
                /\ ForNpc(i + 1)
                /\ UNCHANGED <<quests, guide_msgs, game_raised>>
           ELSE \E msg \in NpcReplies(i) :
                    \E r \in {reply(quest.quest_meta, quest.current_status, msg)} :
                        /\ turn' = [round |-> cur_round, i |-> i,
                                    accomplished |-> before, prompted |-> TRUE,
                                    prompt |-> guide_msgs[i], msg |-> msg]
                        /\ quests' = [quests EXCEPT ![i].current_status = r.current_status]
                        /\ IF r.raised # ""
                           THEN /\ game_raised' = r.raised
                                /\ game_pc' = "raised"
                                /\ UNCHANGED <<guide_msgs, accomplished_quest, npc_i>>
                           ELSE /\ guide_msgs' = [guide_msgs EXCEPT ![i] = r.content]
                                /\ accomplished_quest' =
                                       IF is_accomplished(quest.quest_meta, r.current_status)
                                       THEN accomplished_quest \cup {i}
                                       ELSE accomplished_quest
                                /\ ForNpc(i + 1)
                                /\ UNCHANGED game_raised
    /\ UNCHANGED cur_round
    /\ UNCHANGED <<questVars, postVars, formatVars, wolfVars>>

GameNext == While \/ Turn

SpecGame == GameInit /\ [][GameNext]_vars

\* main is one sequential program and every call of an npc returns: a
\* step that is possible is taken
SpecGameFair == SpecGame /\ WF_vars(GameNext)

\* C20: an npc whose quest is accomplished when its turn comes is not
\* prompted and its quest gets no submission: no quest receives a
\* submission after it has been accomplished.
C20_AccomplishedQuestNotPrompted ==
    [][\A i \in 1..Len(quests) :
           is_accomplished(quests[i].quest_meta, quests[i].current_status)
               => /\ quests'[i] = quests[i]
                  /\ guide_msgs'[i] = guide_msgs[i]
                  /\ ~(turn' # turn /\ turn'.i = i /\ turn'.prompted)]_vars

\* the turn of an npc that is skipped because its quest is accomplished
C20_Witness ==
    /\ turn.i = 1
    /\ turn.round >= 2
    /\ turn.accomplished
    /\ ~turn.prompted
    /\ accomplished_quest = {1}

\* C21: the game loop terminates: it runs at most MAX_GAME_ROUND rounds
\* whatever the npcs submit, and it starts no round once every quest is
\* in accomplished_quest.
C21_LoopTerminates ==
    /\ [](cur_round <= MAX_GAME_ROUND)
    /\ [][cur_round' # cur_round
              => /\ cur_round' = cur_round + 1
                 /\ Cardinality(accomplished_quest) < Len(quests)]_vars
    /\ <>(game_pc \in {"done", "raised"})

\* the loop has ended after its last round with a quest not accomplished
C21_Witness ==
    /\ game_pc = "done"
    /\ cur_round = MAX_GAME_ROUND
    /\ Cardinality(accomplished_quest) < Len(quests)

\* the content of a Msg with which a quest rejects a submission
IsRejection(content) == "valid" \in DOMAIN content /\ ~content.valid

\* C22: when the submission of an npc is rejected as invalid the game loop
\* does not abort: the remaining npcs of the round take their turns, and
\* if a round remains the npc is prompted again in the next round with the
\* rejection as its prompt.
C22_LoopContinuesAfterRejection ==
    [][\A j \in 1..Len(guide_msgs) :
           IsRejection(guide_msgs[j])
               => /\ game_pc' # "raised"
                  /\ (game_pc = "while" /\ cur_round < MAX_GAME_ROUND)
                         => (game_pc' = "for" /\ cur_round' = cur_round + 1)
                  /\ (game_pc = "for" /\ npc_i = j)
                         => /\ turn'.i = j
                            /\ turn'.round = cur_round
                            /\ turn'.prompted
                            /\ turn'.prompt = guide_msgs[j]]_vars

\* the quests for which is_accomplished() is true
Accomplished ==
    {i \in 1..Len(quests) :
         is_accomplished(quests[i].quest_meta, quests[i].current_status)}

\* C23: accomplished_quest holds only quests for which is_accomplished()
\* is true, and at the end of every round it holds every such quest: the
\* count that is reported is the number of accomplished quests and is at
\* most the number of quests.
C23_AccomplishedQuestIsExact ==
    /\ accomplished_quest \subseteq Accomplished
    /\ game_pc \in {"while", "done"} => accomplished_quest = Accomplished
    /\ Cardinality(accomplished_quest) <= Len(quests)

\* the end of a round in which the second quest alone was accomplished
C23_Witness ==
    /\ game_pc = "while"
    /\ cur_round = 1
    /\ accomplished_quest = {2}
    /\ Accomplished = {2}

\* the replies in which the witch resurrects, and those in which she
\* eliminates a player she names
HealingUses ==
    SelectSeq(answers, LAMBDA a : a.prompt = "to_witch_resurrect" /\ a.flag)
PoisonUses ==
    SelectSeq(answers,
              LAMBDA a : a.prompt = "to_witch_poison" /\ a.flag /\ a.valid /\ a.name # "")

\* C24: over a whole game the witch uses her healing at most once and her
\* poison at most once, never both in one night, and she is asked nothing
\* in a night in which she is not among the survivors.
C24_WitchPowersUsedOnce ==
    /\ [](/\ Len(HealingUses) <= 1
          /\ Len(PoisonUses) <= 1
          /\ \A h \in 1..Len(HealingUses), p \in 1..Len(PoisonUses) :
                 HealingUses[h].night # PoisonUses[p].night)
    /\ [][/\ healing' => healing
          /\ poison' => poison
          /\ \A n \in (Len(hints) + 1)..Len(hints') :
                 hints'[n].to = "witch" => InList(witch, survivors)]_vars

\* a night in which the witch has resurrected and is not asked about poison
C24_Witness ==
    /\ wolf_pc = "seer"
    /\ Len(HealingUses) = 1
    /\ ~healing
    /\ poison
    /\ HintsOf("to_witch_poison") = <<>>

\* C25: when the witch holds poison, has not healed this night and her
\* reply eliminates a player with a valid name that is not empty, the
\* player joins the dead list of the night, the night goes on to the seer
\* and the update of the survivors, and poison is gone from then on.
C25_PoisonedPlayerDies ==
    \A p \in 1..Len(PoisonUses) :
        /\ InList(PoisonUses[p].name, dead_player)
        /\ ~poison
        /\ wolf_raised # "TypeError"

\* the role of a player
RoleOf(name) == roles[CHOOSE n \in 1..Len(Players) : Players[n] = name]

\* the replies of the seer that name a player
SeerChecks ==
    SelectSeq(answers, LAMBDA a : a.prompt = "to_seer" /\ a.valid /\ a.name # "")

\* C26: in a night in which the seer is alive her turn completes and she
\* observes a result that calls the checked player a werewolf exactly when
\* the role of that player is werewolf, and a villager otherwise.
C26_SeerObservesRole ==
    \A c \in 1..Len(SeerChecks) :
        /\ wolf_raised # "UnboundLocalError"
        /\ \E n \in 1..Len(hints) :
               /\ hints[n].to = "seer"
               /\ hints[n].prompt = "to_seer_result"
               /\ hints[n].name =
                      SeerChecks[c].name \o " is " \o
                          (IF RoleOf(SeerChecks[c].name) = ROLE_WEREWOLF
                           THEN ROLE_WEREWOLF
                           ELSE ROLE_VILLAGER)

\* C27: the game runs at most MAX_GAME_ROUND rounds and ends only where the
\* win condition is checked, after the deaths of the night or the vote of
\* the day are applied: a night that has passed the seer goes on to the
\* update of the survivors and the check.
C27_GameEndsAtWinCheck ==
    /\ night <= WOLF_MAX_GAME_ROUND
    /\ wolf_pc \notin {"off", "wolves", "witch", "poison", "seer"}
           => (wolf_pc = "update" /\ wolf_raised = "")

====
